---- MODULE Spec2Model ----
(***************************************************************************)
(* Model of create-figdata (src/index.js): a sequential script that        *)
(* creates a Bitbucket repository, clones a template, re-initialises git   *)
(* and rewrites two fields of package.json.  The file holds two variants   *)
(* of the script: lines 1-252 (child_process.execSync) and lines 254-470   *)
(* (zx).  Both are modelled; `variant' selects one.                        *)
(***************************************************************************)
EXTENDS Integers, Sequences, FiniteSets, TLC

\* ---------------------------------------------------------------- bounds
MaxRuns == 2          \* number of invocations of the script in a behaviour

\* ------------------------------------------------------ credential files
Variants == {"execSync", "zx"}

Falsy(v) == v \in {"undefined", ""}          \* JS truthiness of a field

\* What ./bitbucket-credentials.json can be.  kind: absent | unreadable |
\* malformed | json.  A json file parses to null (isNull) or to an object
\* whose fields are "undefined" when the key is missing.
CredFile(kind, isNull, u, t) ==
    [kind |-> kind, isNull |-> isNull, username |-> u, token |-> t]

CredFiles ==
    { CredFile("absent", FALSE, "undefined", "undefined"),
      CredFile("unreadable", FALSE, "undefined", "undefined"),
      CredFile("malformed", FALSE, "undefined", "undefined"),
      CredFile("json", TRUE, "undefined", "undefined"),
      CredFile("json", FALSE, "undefined", "tok"),
      CredFile("json", FALSE, "user", "undefined"),
      CredFile("json", FALSE, "user", ""),
      CredFile("json", FALSE, "user", "tok") }

\* JSON.parse(fs.readFileSync("./bitbucket-credentials.json", "utf8")):
\* the error thrown ("none" when it returns) and the value returned.
readCredentialsFile(f) ==
    [err |-> CASE f.kind = "absent"     -> "ENOENT"
               [] f.kind = "unreadable" -> "EACCES"
               [] f.kind = "malformed"  -> "SyntaxError"
               [] OTHER                 -> "none",
     val |-> f]

\* getBitbucketCredentials(): any error of the read or the parse prints the
\* "n'existe pas" message and is rethrown.
getBitbucketCredentials(f) ==
    LET r == readCredentialsFile(f) IN
    [err |-> r.err, val |-> r.val,
     out |-> IF r.err # "none" THEN << <<"FileMissing", "">> >> ELSE << >>]

\* The if / else-if / else of the catch block around the credential read.
credentialDiagnosticMutant(err) ==
    CASE err = "ENOENT"      -> <<"ReadError", err>>
      [] err = "SyntaxError" -> <<"MalformedJson", "">>
      [] OTHER               -> <<"ReadError", err>>

credentialDiagnostic(err) ==
    CASE err = "ENOENT"      -> <<"FileMissing", "">>
      [] err = "SyntaxError" -> <<"MalformedJson", "">>
      [] OTHER               -> <<"ReadError", err>>

\* The credential part shared by createBitbucketRepo and
\* updateBitbucketRepoPermissions: read (through getBitbucketCredentials in
\* the execSync variant, inline in the zx variant), report, validate.
\* err is the error thrown out of the function at that point, out what was
\* printed on the way.
loadCredentials(v, f) ==
    LET r == IF v = "execSync" THEN getBitbucketCredentials(f)
             ELSE [err |-> readCredentialsFile(f).err,
                   val |-> readCredentialsFile(f).val, out |-> << >>]
    IN  IF r.err # "none"
        THEN [err |-> r.err, out |-> Append(r.out, credentialDiagnostic(r.err))]
        ELSE IF r.val.isNull
        THEN [err |-> "TypeError", out |-> r.out]
        ELSE IF Falsy(r.val.token) \/ Falsy(r.val.username)
        THEN [err |-> "IncompleteCredentials", out |-> r.out]
        ELSE [err |-> "none", out |-> r.out]

\* ------------------------------------------------------------------ JSON
\* A JSON text is a sequence of tokens <<kind, text>>; kinds are the four
\* punctuators, "str" (a string literal), "lit" (number, true, false, null)
\* and "ws" (one whitespace character).
Tok(k, s) == <<k, s>>
LB == Tok("{", "")
RB == Tok("}", "")
COLON == Tok(":", "")
COMMA == Tok(",", "")
NL == Tok("ws", "\n")
SP == Tok("ws", " ")
S(s) == Tok("str", s)
L(s) == Tok("lit", s)

\* A JS value: a string (t = "s"), another primitive (t = "l"), undefined
\* (t = "u") or an object (t = "o") whose own properties are the sequence o
\* of <<key, value>> in insertion order.
Str(s) == [t |-> "s", s |-> s, o |-> << >>]
Lit(s) == [t |-> "l", s |-> s, o |-> << >>]
Obj(m) == [t |-> "o", s |-> "", o |-> m]
Undefined == [t |-> "u", s |-> "", o |-> << >>]

Keys(m) == {m[i][1] : i \in 1..Len(m)}

\* obj[k]
Get(m, k) ==
    IF k \in Keys(m)
    THEN m[CHOOSE i \in 1..Len(m) : m[i][1] = k][2]
    ELSE Undefined

\* obj[k] = v : replaces the value of an existing property in place,
\* otherwise adds the property at the end.
SetProp(m, k, v) ==
    IF k \in Keys(m)
    THEN [i \in 1..Len(m) |-> IF m[i][1] = k THEN <<k, v>> ELSE m[i]]
    ELSE Append(m, <<k, v>>)

ParseFail == [ok |-> FALSE, val |-> Undefined, rest |-> << >>]

RECURSIVE ParseValue(_), ParseMembers(_, _)

\* JSON.parse on a whitespace-free token sequence: one value, then the rest.
ParseValue(ts) ==
    IF ts = << >> THEN ParseFail
    ELSE IF Head(ts)[1] = "str"
    THEN [ok |-> TRUE, val |-> Str(Head(ts)[2]), rest |-> Tail(ts)]
    ELSE IF Head(ts)[1] = "lit"
    THEN [ok |-> TRUE, val |-> Lit(Head(ts)[2]), rest |-> Tail(ts)]
    ELSE IF Head(ts)[1] = "{"
    THEN IF Len(ts) >= 2 /\ ts[2][1] = "}"
         THEN [ok |-> TRUE, val |-> Obj(<< >>), rest |-> SubSeq(ts, 3, Len(ts))]
         ELSE ParseMembers(Tail(ts), << >>)
    ELSE ParseFail

\* The members of an object after "{": key ":" value, then "," or "}".
\* A repeated key keeps its first position and takes the last value.
ParseMembers(ts, acc) ==
    IF Len(ts) < 3 \/ ts[1][1] # "str" \/ ts[2][1] # ":" THEN ParseFail
    ELSE LET r == ParseValue(SubSeq(ts, 3, Len(ts))) IN
         IF ~r.ok \/ r.rest = << >> THEN ParseFail
         ELSE LET acc2 == SetProp(acc, ts[1][2], r.val) IN
              IF Head(r.rest)[1] = "}"
              THEN [ok |-> TRUE, val |-> Obj(acc2), rest |-> Tail(r.rest)]
              ELSE IF Head(r.rest)[1] = ","
              THEN ParseMembers(Tail(r.rest), acc2)
              ELSE ParseFail

IsWs(tok) == tok[1] = "ws"
NotWs(tok) == ~IsWs(tok)

\* JSON.parse(text): ok = FALSE stands for the SyntaxError.
JSONparse(ts) ==
    LET r == ParseValue(SelectSeq(ts, NotWs)) IN
    IF r.ok /\ r.rest = << >> THEN [ok |-> TRUE, val |-> r.val]
    ELSE [ok |-> FALSE, val |-> Undefined]

RECURSIVE Indent(_)
Indent(n) == IF n = 0 THEN << >> ELSE <<SP>> \o Indent(n - 1)

RECURSIVE Stringify(_, _), StringifyMembers(_, _, _)

\* JSON.stringify(value, null, 2) at nesting depth d.
Stringify(v, d) ==
    IF v.t = "s" THEN <<S(v.s)>>
    ELSE IF v.t = "l" THEN <<L(v.s)>>
    ELSE IF v.o = << >> THEN <<LB, RB>>
    ELSE <<LB>> \o StringifyMembers(v.o, 1, d + 1)
              \o <<NL>> \o Indent(2 * d) \o <<RB>>

StringifyMembers(m, i, d) ==
    IF i > Len(m) THEN << >>
    ELSE <<NL>> \o Indent(2 * d) \o <<S(m[i][1]), COLON, SP>>
              \o Stringify(m[i][2], d)
              \o (IF i < Len(m) THEN <<COMMA>> ELSE << >>)
              \o StringifyMembers(m, i + 1, d)

JSONstringify(v) == Stringify(v, 0)

\* ---------------------------------------------- template package.json
File(present, text) == [present |-> present, text |-> text]
NoFile == File(FALSE, << >>)

PkgCompact ==
    <<LB, S("name"), COLON, S("old"), COMMA,
      S("figdata"), COLON, LB, S("id"), COLON, S("old"), RB, RB>>

PkgFull ==
    <<LB, NL, SP, SP, SP, SP, S("name"), COLON, SP, S("old"), COMMA,
      NL, SP, SP, SP, SP, S("version"), COLON, SP, S("1.0.0"), COMMA,
      NL, SP, SP, SP, SP, S("private"), COLON, SP, L("true"), COMMA,
      NL, SP, SP, SP, SP, S("figdata"), COLON, SP,
          LB, S("id"), COLON, S("old"), COMMA, S("title"), COLON, S("t"), RB, COMMA,
      NL, SP, SP, SP, SP, S("scripts"), COLON, SP,
          LB, S("dev"), COLON, S("vite"), RB,
      NL, RB, NL>>

PkgNoFigdata == <<LB, S("name"), COLON, S("old"), RB>>

PkgNullFigdata ==
    <<LB, S("name"), COLON, S("old"), COMMA, S("figdata"), COLON, L("null"), RB>>

PkgNoNameNoId ==
    <<LB, S("version"), COLON, S("1.0.0"), COMMA, S("figdata"), COLON, LB, RB, RB>>

PkgMalformed == <<LB, S("name"), COLON, S("old"), COMMA, RB>>

\* What the cloned template can hold at package.json.
Templates ==
    { File(TRUE, PkgCompact), File(TRUE, PkgFull), File(TRUE, PkgNoFigdata),
      File(TRUE, PkgNullFigdata), File(TRUE, PkgNoNameNoId),
      File(TRUE, PkgMalformed), NoFile }

\* ------------------------------------------------------------ remote API
Names == {"", "a", "b"}       \* answers the operator can give at the prompt
PreExisting == {"b"}          \* repositories that may exist before any run

WebUrl(n) ==
    CASE n = "a" -> "https://bitbucket.org/lefigaro/a"
      [] n = "b" -> "https://bitbucket.org/lefigaro/b"
      [] OTHER   -> "https://bitbucket.org/lefigaro/"

ApiUrl(n) ==
    CASE n = "a" -> "https://api.bitbucket.org/2.0/repositories/lefigaro/a"
      [] n = "b" -> "https://api.bitbucket.org/2.0/repositories/lefigaro/b"
      [] OTHER   -> "https://api.bitbucket.org/2.0/repositories/lefigaro/"

Response(kind, status, msg, html, self) ==
    [kind |-> kind, status |-> status, msg |-> msg, html |-> html, self |-> self]

\* Answers of the remote to POST /repositories/lefigaro/{n}.  The remote is
\* outside the program: it refuses a slug that exists (or is empty) and may
\* refuse or be unreachable in any case.
postFailures ==
    { Response("http", 400, "Repository with this Slug and Owner already exists.", "", ""),
      Response("http", 401, "", "", ""),
      Response("network", 0, "", "", "") }

postResponses(n, existing) ==
    IF n = "" \/ n \in existing THEN postFailures
    ELSE postFailures \cup {Response("http", 200, "", WebUrl(n), ApiUrl(n))}

\* axios rejects the promise unless a response arrived with a 2xx status.
axiosRejectsMutant(resp) == resp.kind = "network"

axiosRejects(resp) == resp.kind = "network" \/ resp.status \notin 200..299

\* error.response?.data?.error?.message || error.message
errorDetail(resp) ==
    IF resp.kind = "http" /\ resp.msg # "" THEN resp.msg
    ELSE IF resp.kind = "http" THEN "Request failed with status code"
    ELSE "Network Error"

\* return response.data.links.html.href
responseHrefMutant(resp) == resp.self

responseHref(resp) == resp.html

\* ----------------------------------------------------------------- state
VARIABLES
    variant,      \* which of the two scripts of src/index.js runs
    credFile,     \* ./bitbucket-credentials.json
    run,          \* number of the current invocation
    pc,           \* position of the script
    projectDir,   \* const projectDir = answers.name
    repoUrl,      \* let repoUrl
    cwd,          \* process.cwd(), "." is the directory of the invocation
    remoteRepos,  \* slugs that exist under the organisation on the remote
    disk,         \* the directories the script works on, by name
    log,          \* external operations attempted by the current run
    out,          \* diagnostics printed by the current run
    exitCode,     \* exit status of the current run, -1 while it runs
    termination,  \* running | process.exit | uncaught | normal
    thrown,       \* the error that ended the current run, "none" otherwise
    upd           \* a call of updateBitbucketRepoPermissions

vars == <<variant, credFile, run, pc, projectDir, repoUrl, cwd, remoteRepos,
          disk, log, out, exitCode, termination, thrown, upd>>

Dir(exists, git, origin, pkg) ==
    [exists |-> exists, git |-> git, origin |-> origin, pkg |-> pkg]
NoDir == Dir(FALSE, "none", "", NoFile)

Event(op, ok, arg) == [op |-> op, ok |-> ok, arg |-> arg]

UpdIdle == [state |-> "idle", repoName |-> "", permission |-> "",
            err |-> "none", puts |-> << >>, status |-> 0, result |-> 0]

Init ==
    /\ variant \in Variants
    /\ credFile \in CredFiles
    /\ run = 1
    /\ pc = "prompt"
    /\ projectDir = ""
    /\ repoUrl = "undefined"
    /\ cwd = "."
    /\ remoteRepos \in SUBSET PreExisting
    /\ disk = [n \in Names |-> NoDir]
    /\ log = << >>
    /\ out = << >>
    /\ exitCode = -1
    /\ termination = "running"
    /\ thrown = "none"
    /\ upd = UpdIdle

\* ------------------------------------------------------------ top level
\* The sequence of the statements of the script.
nextStepMutant(step) ==
    CASE step = "prompt"    -> "provision"
      [] step = "provision" -> "clone"
      [] step = "clone"     -> "init"
      [] step = "init"      -> "rmgit"
      [] step = "rmgit"     -> "remote"
      [] step = "remote"    -> "manifest"
      [] OTHER              -> "exit"

nextStep(step) ==
    CASE step = "prompt"    -> "provision"
      [] step = "provision" -> "clone"
      [] step = "clone"     -> "rmgit"
      [] step = "rmgit"     -> "init"
      [] step = "init"      -> "remote"
      [] step = "remote"    -> "manifest"
      [] OTHER              -> "exit"

Outcome(p, code, term, o) == [pc |-> p, exitCode |-> code, term |-> term, out |-> o]

\* try { repoUrl = await createBitbucketRepo(projectDir) } catch (error)
\* { console.error(...); process.exit(1) }
provisionCatchMutant(err) ==
    IF err = "none" THEN Outcome(nextStep("provision"), -1, "running", << >>)
    ELSE Outcome(nextStep("provision"), -1, "running", << <<"Impossible", "">> >>)

provisionCatch(err) ==
    IF err = "none" THEN Outcome(nextStep("provision"), -1, "running", << >>)
    ELSE Outcome("exit", 1, "process.exit", << <<"Impossible", "">> >>)

\* A statement outside any try: an exception it throws is uncaught, node
\* prints it and ends the process with status 1.
uncaughtMutant(step, err) ==
    Outcome(nextStep(step), IF nextStep(step) = "exit" THEN 0 ELSE -1,
            IF nextStep(step) = "exit" THEN "normal" ELSE "running", << >>)

uncaught(step, err) ==
    IF err = "none"
    THEN Outcome(nextStep(step), IF nextStep(step) = "exit" THEN 0 ELSE -1,
                 IF nextStep(step) = "exit" THEN "normal" ELSE "running", << >>)
    ELSE Outcome("exit", 1, "uncaught", << >>)

\* const answers = await inquirer.prompt(...); projectDir = answers.name
prompt ==
    /\ pc = "prompt"
    /\ \E n \in Names : projectDir' = n
    /\ pc' = nextStep("prompt")
    /\ UNCHANGED <<variant, credFile, run, repoUrl, cwd, remoteRepos, disk,
                   log, out, exitCode, termination, thrown, upd>>

\* createBitbucketRepo(projectDir) and the try/catch around it.
createBitbucketRepo ==
    /\ pc = "provision"
    /\ LET c == loadCredentials(variant, credFile) IN
       IF c.err # "none"
       THEN LET k == provisionCatch(c.err) IN
            /\ pc' = k.pc
            /\ exitCode' = k.exitCode
            /\ termination' = k.term
            /\ out' = out \o c.out \o k.out
            /\ thrown' = c.err
            /\ UNCHANGED <<log, remoteRepos, repoUrl>>
       ELSE \E resp \in postResponses(projectDir, remoteRepos) :
            LET rejected == axiosRejects(resp)
                k == provisionCatch(IF rejected THEN "AxiosError" ELSE "none")
            IN  /\ log' = Append(log, Event("post", ~rejected, resp.html))
                /\ remoteRepos' = IF resp.kind = "http" /\ resp.status \in 200..299
                                  THEN remoteRepos \cup {projectDir}
                                  ELSE remoteRepos
                /\ repoUrl' = IF rejected THEN repoUrl ELSE responseHref(resp)
                /\ out' = out \o c.out
                          \o (IF rejected
                              THEN << <<"CreateError", errorDetail(resp)>> >>
                              ELSE << >>)
                          \o k.out
                /\ thrown' = IF rejected THEN "AxiosError" ELSE "none"
                /\ pc' = k.pc
                /\ exitCode' = k.exitCode
                /\ termination' = k.term
    /\ UNCHANGED <<variant, credFile, run, projectDir, cwd, disk, upd>>

\* ------------------------------------------------- workspace initialiser
Apply(k, err) ==
    /\ pc' = k.pc
    /\ exitCode' = k.exitCode
    /\ termination' = k.term
    /\ out' = out \o k.out
    /\ thrown' = err

TemplateUrl == "git@bitbucket.org:lefigaro/data-vite-scaffolder.git"

\* git clone --depth 1 <template> ${projectDir}.  git refuses a target
\* directory that exists; otherwise the clone may fail for reasons of its
\* own (network, access), leaving nothing behind.
gitClone ==
    /\ pc = "clone"
    /\ \E gitOk \in BOOLEAN, tpl \in Templates :
        LET ok == gitOk /\ ~disk[projectDir].exists
            err == IF ok THEN "none" ELSE "ExecError"
        IN  /\ log' = Append(log, Event("clone", ok, projectDir))
            /\ disk' = IF ok
                       THEN [disk EXCEPT ![projectDir] = Dir(TRUE, "template", TemplateUrl, tpl)]
                       ELSE disk
            /\ Apply(uncaught("clone", err), err)
    /\ UNCHANGED <<variant, credFile, run, projectDir, repoUrl, cwd,
                   remoteRepos, upd>>

\* rmSync(`${projectDir}/.git`, { recursive: true, force: true })
\* (zx: cd ${projectDir} && rm -rf .git)
rmGit ==
    /\ pc = "rmgit"
    /\ \E ok \in BOOLEAN :
        LET err == IF ok THEN "none" ELSE "ExecError" IN
        /\ log' = Append(log, Event("rmgit", ok, projectDir))
        /\ disk' = IF ok /\ disk[projectDir].exists
                   THEN [disk EXCEPT ![projectDir].git = "none",
                                     ![projectDir].origin = ""]
                   ELSE disk
        /\ Apply(uncaught("rmgit", err), err)
    /\ UNCHANGED <<variant, credFile, run, projectDir, repoUrl, cwd,
                   remoteRepos, upd>>

\* process.chdir(projectDir); execSync("git init")   (zx: && git init)
gitInit ==
    /\ pc = "init"
    /\ cwd' = IF variant = "execSync" THEN projectDir ELSE cwd
    /\ \E ok \in BOOLEAN :
        LET err == IF ok THEN "none" ELSE "ExecError" IN
        /\ log' = Append(log, Event("init", ok, projectDir))
        /\ disk' = IF ok /\ disk[projectDir].exists /\ disk[projectDir].git = "none"
                   THEN [disk EXCEPT ![projectDir].git = "fresh"]
                   ELSE disk
        /\ Apply(uncaught("init", err), err)
    /\ UNCHANGED <<variant, credFile, run, projectDir, repoUrl,
                   remoteRepos, upd>>

\* execSync(`git remote add origin ${repoUrl}`)
remoteAdd ==
    /\ pc = "remote"
    /\ \E ok \in BOOLEAN :
        LET err == IF ok THEN "none" ELSE "ExecError" IN
        /\ log' = Append(log, Event("remote", ok, repoUrl))
        /\ disk' = IF ok
                   THEN [disk EXCEPT ![projectDir].origin = repoUrl]
                   ELSE disk
        /\ Apply(uncaught("remote", err), err)
    /\ UNCHANGED <<variant, credFile, run, projectDir, repoUrl, cwd,
                   remoteRepos, upd>>

\* ---------------------------------------------------- manifest customiser
\* The directory whose package.json pkgPath names: "package.json" under the
\* working directory (execSync variant), `${projectDir}/package.json` (zx).
pkgDir(v, wd, name) == IF v = "execSync" THEN wd ELSE name

readPkg(d, dir) ==
    IF dir \in DOMAIN d /\ d[dir].exists THEN d[dir].pkg ELSE NoFile

\* pkg["name"] = projectDir; pkg["figdata"]["id"] = projectDir on the parsed
\* manifest: the error thrown and the object as it is afterwards.  The
\* script is an ES module, hence strict: setting a property of a primitive
\* throws as setting one of undefined or null does.
customizeMutant(pkg, name) ==
    IF pkg.t # "o" THEN [err |-> "TypeError", val |-> pkg]
    ELSE LET named == SetProp(pkg.o, "name", Str(name))
             fig == Get(named, "figdata")
         IN  IF fig.t # "o" THEN [err |-> "TypeError", val |-> Obj(named)]
             ELSE [err |-> "none",
                   val |-> Obj(SetProp(named, "figdata",
                                       Obj(<< <<"id", Str(name)>> >>)))]

customize(pkg, name) ==
    IF pkg.t # "o" THEN [err |-> "TypeError", val |-> pkg]
    ELSE LET named == SetProp(pkg.o, "name", Str(name))
             fig == Get(named, "figdata")
         IN  IF fig.t # "o" THEN [err |-> "TypeError", val |-> Obj(named)]
             ELSE [err |-> "none",
                   val |-> Obj(SetProp(named, "figdata",
                                       Obj(SetProp(fig.o, "id", Str(name)))))]

customizeManifest ==
    /\ pc = "manifest"
    /\ LET dir == pkgDir(variant, cwd, projectDir)
           file == readPkg(disk, dir)
           parsed == JSONparse(file.text)
           c == customize(parsed.val, projectDir)
           err == IF ~file.present THEN "ENOENT"
                  ELSE IF ~parsed.ok THEN "SyntaxError"
                  ELSE c.err
       IN  /\ log' = Append(log, Event("manifest", err = "none", projectDir))
           /\ disk' = IF err = "none"
                      THEN [disk EXCEPT ![dir].pkg = File(TRUE, JSONstringify(c.val))]
                      ELSE disk
           /\ cwd' = IF err = "none" /\ variant = "execSync" THEN "." ELSE cwd
           /\ Apply(uncaught("manifest", err), err)
    /\ UNCHANGED <<variant, credFile, run, projectDir, repoUrl,
                   remoteRepos, upd>>

\* A later invocation of the script: the remote and the disk are what the
\* earlier runs left.
startRun ==
    /\ pc = "exit"
    /\ run < MaxRuns
    /\ run' = run + 1
    /\ pc' = "prompt"
    /\ projectDir' = ""
    /\ repoUrl' = "undefined"
    /\ cwd' = "."
    /\ log' = << >>
    /\ out' = << >>
    /\ exitCode' = -1
    /\ termination' = "running"
    /\ thrown' = "none"
    /\ UNCHANGED <<variant, credFile, remoteRepos, disk, upd>>

Next ==
    \/ prompt
    \/ createBitbucketRepo
    \/ gitClone
    \/ rmGit
    \/ gitInit
    \/ remoteAdd
    \/ customizeManifest
    \/ startRun

Spec == Init /\ [][Next]_vars

\* ---------------------------------------------------- permission updater
\* Permission levels a caller can pass.
PermInputs == {"admin", "Admin", "READ", "write", "owner", ""}

\* String.prototype.toLowerCase on those.
toLowerCase(s) ==
    CASE s = "Admin" -> "admin"
      [] s = "READ"  -> "read"
      [] OTHER       -> s

\* The levels the message of the permission check names.
PermissionLevels == {"read", "write", "admin"}

\* Identifiers that resolve inside updateBitbucketRepoPermissions(repoName):
\* its parameter, its locals, the imports and declarations of the module,
\* the globals it uses.  `permission' and `permissionMap' are declared
\* nowhere in the file.
updaterScope ==
    {"repoName", "credentials", "normalizedPermission", "auth", "response",
     "program", "inquirer", "fs", "execSync", "rmSync", "axios",
     "getBitbucketCredentials", "updateBitbucketRepoPermissions",
     "createBitbucketRepo", "options", "answers", "projectDir", "repoUrl",
     "initialDir", "pkgPath", "pkg", "Buffer", "Object", "JSON", "console",
     "process", "Error", "SyntaxError"}

\* Answers of the remote to the PUT on the group-permission endpoint.
putResponses ==
    { Response("http", 200, "", "", ""),
      Response("http", 403, "Forbidden", "", ""),
      Response("network", 0, "", "", "") }

UpdCall(name, perm) ==
    [state |-> "called", repoName |-> name, permission |-> perm,
     err |-> "none", puts |-> << >>, status |-> 0, result |-> 0]

UpdThrow(u, err) == [u EXCEPT !.state = "done", !.err = err]

\* updateBitbucketRepoPermissions(repoName), called with a repository name
\* and a permission level; the function declares the first only.
updateBitbucketRepoPermissions ==
    /\ upd.state = "called"
    /\ LET c == loadCredentials(variant, credFile) IN
       IF c.err # "none"
       THEN /\ upd' = UpdThrow(upd, c.err)
            /\ out' = out \o c.out
       ELSE IF Falsy(upd.repoName)
       THEN /\ upd' = UpdThrow(upd, "RepoNameRequired")
            /\ out' = out \o c.out
       ELSE IF "permission" \notin updaterScope
       THEN /\ upd' = UpdThrow(upd, "ReferenceError")
            /\ out' = out \o c.out
       ELSE IF "permissionMap" \notin updaterScope
       THEN /\ upd' = UpdThrow(upd, "ReferenceError")
            /\ out' = out \o c.out
       ELSE IF toLowerCase(upd.permission) \notin PermissionLevels
       THEN /\ upd' = UpdThrow(upd, "InvalidPermission")
            /\ out' = out \o c.out
       ELSE \E resp \in putResponses :
            LET put == [repoName |-> upd.repoName, permission |-> "admin"] IN
            IF axiosRejects(resp)
            THEN /\ upd' = [upd EXCEPT !.state = "done", !.err = "AxiosError",
                                       !.puts = Append(@, put),
                                       !.status = resp.status]
                 /\ out' = out \o c.out
                           \o << <<"PermissionError", errorDetail(resp)>> >>
            ELSE /\ upd' = [upd EXCEPT !.state = "done",
                                       !.puts = Append(@, put),
                                       !.status = resp.status,
                                       !.result = resp.status]
                 /\ out' = out \o c.out
    /\ UNCHANGED <<variant, credFile, run, pc, projectDir, repoUrl, cwd,
                   remoteRepos, disk, log, exitCode, termination, thrown>>

\* The updater on its own: every credential file, repository name and
\* permission level it can be called with.
InitUpd ==
    /\ variant \in Variants
    /\ credFile \in CredFiles
    /\ run = 1
    /\ pc = "prompt"
    /\ projectDir = ""
    /\ repoUrl = "undefined"
    /\ cwd = "."
    /\ remoteRepos \in SUBSET PreExisting
    /\ disk = [n \in Names |-> NoDir]
    /\ log = << >>
    /\ out = << >>
    /\ exitCode = -1
    /\ termination = "running"
    /\ thrown = "none"
    /\ \E n \in Names, p \in PermInputs : upd = UpdCall(n, p)

NextUpd == updateBitbucketRepoPermissions

SpecUpd == InitUpd /\ [][NextUpd]_vars

\* ---------------------------------------------------------- properties
Attempted(op) == \E i \in 1..Len(log) : log[i].op = op
Succeeded(op) == \E i \in 1..Len(log) : log[i].op = op /\ log[i].ok
Failed(op) == \E i \in 1..Len(log) : log[i].op = op /\ ~log[i].ok
Printed(tag) == \E i \in 1..Len(out) : out[i][1] = tag
LocalOps == {"clone", "rmgit", "init", "remote", "manifest"}
WorkspaceOps == {"clone", "rmgit", "init", "remote"}
EmptyDisk == [n \in Names |-> NoDir]
CredentialsValid == loadCredentials(variant, credFile).err = "none"

\* C1: in every run a local mutation (clone, .git removal, git init, remote
\* add, manifest write) is attempted, and the disk changes, only after the
\* create-repository POST of that run succeeded; a run whose POST failed is
\* over, with exit code 1, without a clone.
C1_NoMutationBeforeCreation ==
    /\ [](/\ \A i \in 1..Len(log) :
               log[i].op \in LocalOps =>
                   \E j \in 1..(i - 1) : log[j].op = "post" /\ log[j].ok
          /\ Failed("post") =>
               pc = "exit" /\ exitCode = 1 /\ ~Attempted("clone"))
    /\ [][disk' # disk => Succeeded("post")]_vars

C1_Witness ==
    /\ pc = "exit"
    /\ exitCode = 1
    /\ log = <<Event("post", FALSE, "")>>
    /\ <<"CreateError", "Repository with this Slug and Owner already exists.">>
           \in {out[i] : i \in 1..Len(out)}
    /\ disk = EmptyDisk

\* C2: with the credentials file absent the run issues no HTTP request,
\* changes nothing on the disk or the remote, and once past provisioning
\* has printed the FileMissing diagnostic and ended with exit code 1.
C2_AbsentCredentials ==
    credFile.kind = "absent" =>
        /\ log = << >>
        /\ disk = EmptyDisk
        /\ remoteRepos \subseteq PreExisting
        /\ pc \in {"prompt", "provision", "exit"}
        /\ pc = "exit" =>
              /\ exitCode = 1
              /\ Printed("FileMissing")
              /\ thrown = "ENOENT"

C2_Witness ==
    /\ credFile.kind = "absent"
    /\ pc = "exit"
    /\ exitCode = 1
    /\ Printed("FileMissing")
    /\ log = << >>

\* C3: once the POST of a run succeeded, repoUrl is the web URL of that
\* response at every later point of the run, it is the URL handed to
\* 'git remote add origin', and it is the origin of the workspace once that
\* step succeeded.
C3_OriginIsReturnedUrl ==
    \A j \in 1..Len(log) :
        (log[j].op = "post" /\ log[j].ok) =>
            /\ repoUrl = log[j].arg
            /\ \A i \in 1..Len(log) :
                   log[i].op = "remote" => log[i].arg = log[j].arg
            /\ Succeeded("remote") => disk[projectDir].origin = log[j].arg

C3_Witness ==
    /\ Succeeded("post")
    /\ Succeeded("remote")
    /\ disk[projectDir].origin = WebUrl(projectDir)
    /\ disk[projectDir].git = "fresh"

HasManifestShape(v) ==
    /\ v.t = "o"
    /\ "name" \in Keys(v.o)
    /\ Get(v.o, "figdata").t = "o"
    /\ "id" \in Keys(Get(v.o, "figdata").o)

SameExcept(orig, new, id) ==
    /\ new.t = "o"
    /\ Keys(new.o) = Keys(orig.o)
    /\ Get(new.o, "name") = Str(id)
    /\ \A k \in Keys(orig.o) \ {"name", "figdata"} : Get(new.o, k) = Get(orig.o, k)
    /\ LET fo == Get(orig.o, "figdata")
           fn == Get(new.o, "figdata")
       IN  /\ fn.t = "o"
           /\ Keys(fn.o) = Keys(fo.o)
           /\ Get(fn.o, "id") = Str(id)
           /\ \A k \in Keys(fo.o) \ {"id"} : Get(fn.o, k) = Get(fo.o, k)

\* C4: when the manifest of the workspace parses to an object with a "name"
\* and a "figdata" object with an "id", the customisation step succeeds and
\* the manifest read back from the disk is that object except that "name"
\* and "figdata.id" are the identifier; the keys are the same and every
\* other value is unchanged.
C4_ManifestRoundTrip ==
    [][ LET before == disk[projectDir].pkg
            orig == JSONparse(before.text)
        IN  (pc = "manifest" /\ before.present /\ orig.ok
                /\ HasManifestShape(orig.val)) =>
            LET new == JSONparse(disk'[projectDir].pkg.text) IN
            /\ pc' = "exit"
            /\ exitCode' = 0
            /\ disk'[projectDir].pkg.present
            /\ new.ok
            /\ SameExcept(orig.val, new.val, projectDir) ]_vars

C4_Witness ==
    /\ pc = "exit"
    /\ exitCode = 0
    /\ Succeeded("manifest")
    /\ LET v == JSONparse(disk[projectDir].pkg.text).val IN
       /\ Get(v.o, "name") = Str(projectDir)
       /\ Get(Get(v.o, "figdata").o, "id") = Str(projectDir)
       /\ Get(Get(v.o, "figdata").o, "title") = Str("t")
       /\ Get(v.o, "private") = Lit("true")

ProvisionFailed == pc = "exit" /\ ~Succeeded("post")
WorkspaceStepFailed == \E i \in 1..Len(log) : log[i].op \in WorkspaceOps /\ ~log[i].ok
FullRun ==
    /\ Len(log) = 6
    /\ \A i \in 1..6 :
           log[i].op = <<"post", "clone", "rmgit", "init", "remote", "manifest">>[i]
           /\ log[i].ok

\* C5 as stated: a failure of provisioning or of a workspace step is caught
\* by the top-level run, which prints a diagnostic and exits with code 1;
\* exit code 0 only when every step succeeded.
C5_AsStated ==
    /\ (ProvisionFailed \/ WorkspaceStepFailed) =>
           /\ pc = "exit"
           /\ termination = "process.exit"
           /\ exitCode = 1
           /\ out # << >>
    /\ exitCode = 0 => FullRun

\* C5 amended: a failure of provisioning is caught by the top-level run,
\* which prints its diagnostic and exits with code 1; a failure of a
\* workspace step is not caught: the exception ends the process with
\* status 1 and the run prints no diagnostic of its own; exit code 0 only
\* when every step, manifest customisation included, succeeded.
C5_Amended ==
    /\ ProvisionFailed =>
           /\ termination = "process.exit"
           /\ exitCode = 1
           /\ out # << >>
           /\ out[Len(out)] = <<"Impossible", "">>
    /\ WorkspaceStepFailed =>
           /\ pc = "exit"
           /\ termination = "uncaught"
           /\ exitCode = 1
           /\ thrown = "ExecError"
           /\ ~Printed("Impossible")
    /\ exitCode = 0 => FullRun /\ pc = "exit" /\ termination = "normal"

C5_Witness ==
    /\ pc = "exit"
    /\ Succeeded("post")
    /\ Failed("clone")
    /\ termination = "uncaught"
    /\ exitCode = 1

\* C6: the credential file is classified into exactly one of success,
\* FileMissing, MalformedJson, IncompleteCredentials, each failure with its
\* own diagnostic: FileMissing is printed for an absent file only,
\* MalformedJson for an unparsable file only, and a file that parses
\* without both fields fails as IncompleteCredentials.
C6_Classification ==
    (pc \notin {"prompt", "provision"}
        /\ credFile.kind \in {"absent", "malformed", "json"}) =>
        /\ Printed("FileMissing") <=> credFile.kind = "absent"
        /\ Printed("MalformedJson") <=> credFile.kind = "malformed"
        /\ thrown = "IncompleteCredentials" <=>
               (credFile.kind = "json"
                  /\ (credFile.isNull \/ Falsy(credFile.username)
                         \/ Falsy(credFile.token)))
        /\ Attempted("post") <=>
               (credFile.kind = "json" /\ ~credFile.isNull
                  /\ ~Falsy(credFile.username) /\ ~Falsy(credFile.token))

\* C7: a run issues at most one create-repository request; provisioning
\* under an identifier that exists on the remote fails in that one step,
\* with exit code 1 and the disk untouched, and a run whose request failed
\* attempts nothing locally.
C7_NoRetry ==
    /\ [](/\ Cardinality({i \in 1..Len(log) : log[i].op = "post"}) <= 1
          /\ Failed("post") =>
                /\ pc = "exit"
                /\ exitCode = 1
                /\ \A i \in 1..Len(log) : log[i].op \notin LocalOps)
    /\ [][ (pc = "provision" /\ CredentialsValid /\ projectDir \in remoteRepos) =>
              /\ log' = <<Event("post", FALSE, "")>>
              /\ pc' = "exit"
              /\ exitCode' = 1
              /\ disk' = disk
              /\ remoteRepos' = remoteRepos ]_vars

C7_Witness ==
    /\ run = 2
    /\ projectDir = "a"
    /\ disk["a"].exists
    /\ disk["a"].origin = WebUrl("a")
    /\ pc = "exit"
    /\ exitCode = 1
    /\ log = <<Event("post", FALSE, "")>>

\* C8: no create-repository request, clone or manifest write is made with
\* an empty project identifier.
C8_NonEmptyIdentifier ==
    \A i \in 1..Len(log) :
        log[i].op \in {"post", "clone", "manifest"} => projectDir # ""

\* C9: the workspace steps are attempted in the order clone, .git removal,
\* git init, remote add (then the manifest), each only after every earlier
\* one succeeded; a failed step ends the run, and neither it nor anything
\* later removes or undoes what is on the disk.
C9_WorkspaceOrder ==
    /\ [](/\ \A i \in 2..Len(log) :
               /\ i - 1 <= 5
               /\ log[i].op = <<"clone", "rmgit", "init", "remote", "manifest">>[i - 1]
               /\ log[i - 1].ok
          /\ (log # << >> /\ ~log[Len(log)].ok) => pc = "exit"
          /\ pc \in {"rmgit", "init", "remote", "manifest"} =>
               /\ disk[projectDir].exists
               /\ disk[projectDir].git = CASE pc = "rmgit" -> "template"
                                           [] pc = "init"  -> "none"
                                           [] OTHER        -> "fresh")
    /\ [][ /\ (log' # log /\ log' # << >> /\ ~log'[Len(log')].ok) => disk' = disk
           /\ \A n \in Names : disk[n].exists =>
                  /\ disk'[n].exists
                  /\ disk'[n].pkg.present = disk[n].pkg.present ]_vars

C9_Witness ==
    /\ pc = "exit"
    /\ Len(log) = 4
    /\ log[4] = Event("init", FALSE, projectDir)
    /\ disk[projectDir].exists
    /\ disk[projectDir].git = "none"
    /\ disk[projectDir].pkg.present

\* C10: called with valid credentials and a repository name, the updater
\* fails with InvalidPermission, without a PUT, exactly when the permission
\* level lower-cased is not read, write or admin; for a level in that set
\* it issues one PUT with permission "admin" and on HTTP success returns
\* the status code.
C10_PermissionUpdater ==
    (upd.state = "done" /\ CredentialsValid /\ upd.repoName # "") =>
        LET valid == toLowerCase(upd.permission) \in PermissionLevels IN
        /\ (upd.err = "InvalidPermission" /\ upd.puts = << >>) <=> ~valid
        /\ valid =>
             /\ Len(upd.puts) = 1
             /\ upd.puts[1].permission = "admin"
             /\ upd.status \in 200..299 => (upd.err = "none" /\ upd.result = upd.status)
====
